---- MODULE Spec2Model ----
(***************************************************************************)
(* Model of proxy/src/bind.rs: the Protocol/Host routing key, the Bind     *)
(* factory with its shared request-id counter, bind_service, and the       *)
(* discovery-facing BindProtocol adapter.                                  *)
(***************************************************************************)
EXTENDS Integers, Sequences, FiniteSets, TLC

(* ---------------------------- bounds ----------------------------------- *)
\* longest Host header value / URI authority, in bytes
MaxLen == 1
\* binders (Bind / BindProtocol values) alive at once
MaxSlots == 2
\* services bound
MaxServices == 2
\* requests dispatched (request ids drawn)
MaxReqs == 2
\* requests routed through the discovery cache
MaxRoutes == 2
\* socket addresses
NumAddrs == 2

VARIABLES
    pc, r1, r2, k1, k2, cmp,   \* classification of a pair of requests
    counters,   \* heap of Arc<AtomicUsize> request-id counters
    slots,      \* live Bind / BindProtocol values
    services,   \* every Service value constructed, in construction order
    bound,      \* the service each bind call returned, in call order
    cache,      \* the discovery cache, keyed by (address, Protocol)
    routed,     \* the service each routed request was dispatched on
    reqLog,     \* request ids in the order they were assigned
    hist        \* history: how each binder and service came to be

kvars == <<pc, r1, r2, k1, k2, cmp>>
bvars == <<counters, slots, services, bound, cache, routed, reqLog, hist>>
vars == <<kvars, bvars>>

(* ------------------------- request values ------------------------------ *)
\* Bytes a header value may hold: "a" and "b" are URI characters, " " is
\* visible ASCII but not a URI character, "x80" is a non-ASCII byte.
Bytes == {"a", "b", " ", "x80"}
UriChars == {"a", "b"}
VisibleAscii == {"a", "b", " "}

SeqsUpTo(S, n) == UNION {[1..k -> S] : k \in 0..n}

HeaderValues == SeqsUpTo(Bytes, MaxLen)

\* http::Version
Versions == {"HTTP_09", "HTTP_10", "HTTP_11", "HTTP_2"}

None == [some |-> FALSE]
Some(v) == [some |-> TRUE, val |-> v]

\* HeaderValue::to_str: Ok only when every byte is visible ASCII
ToStr(hv) ==
    IF \A i \in 1..Len(hv) : hv[i] \in VisibleAscii THEN Some(hv) ELSE None

\* str::parse::<uri::Authority>: Err on the empty string and on any byte
\* that is not a URI character
ParseAuthority(s) ==
    IF Len(s) > 0 /\ \A i \in 1..Len(s) : s[i] \in UriChars
    THEN Some([authority |-> s])
    ELSE None

\* every uri::Authority value
Authorities == {[authority |-> s] : s \in {t \in HeaderValues :
                    Len(t) > 0 /\ \A i \in 1..Len(t) : t[i] \in UriChars}}

\* http::Request as read by Protocol::from: version(), uri().authority_part()
\* and headers().get(HOST)
Requests == [version : Versions,
             authority_part : {None} \cup {Some(a) : a \in Authorities},
             host : {None} \cup {Some(h) : h \in HeaderValues}]

(* --------------------------- Host / Protocol --------------------------- *)
NoAuthority == [host |-> "NoAuthority"]
Authority(a) == [host |-> "Authority", a |-> a]
Hosts == {NoAuthority} \cup {Authority(a) : a \in Authorities}

Http2 == [proto |-> "Http2"]
Http1(h) == [proto |-> "Http1", h |-> h]
Protocols == {Http2} \cup {Http1(h) : h \in Hosts}

\* no Protocol chosen yet
NoKey == [proto |-> "unset"]
NoCmp == [set |-> FALSE]

\* the equality #[derive(PartialEq)] would give Host
HostEqDerived(x, y) == x = y

\* impl cmp::PartialEq for Host
HostEq(x, y) ==
    IF x.host = "Authority" /\ y.host = "Authority" THEN x.a = y.a ELSE FALSE

\* Protocol compared field by field, Host included
ProtocolEqStructural(p, q) == p = q

\* #[derive(PartialEq)] on Protocol: same variant, fields compared with
\* Host's eq
ProtocolEq(p, q) ==
    CASE p.proto = "Http1" /\ q.proto = "Http1" -> HostEq(p.h, q.h)
      [] p.proto = "Http2" /\ q.proto = "Http2" -> TRUE
      [] OTHER -> FALSE

\* and_then / or_else / map on Option
OrElse(o, alt) == IF o.some THEN o ELSE alt

\* the Host: header lookup of Protocol::from
HostHeaderAuthority(req) ==
    IF req.host.some
    THEN LET s == ToStr(req.host.val)
         IN IF s.some THEN ParseAuthority(s.val) ELSE None
    ELSE None

\* Protocol::from without the HTTP/2 arm
ClassifyHostAlways(req) ==
    LET host == OrElse(req.authority_part, HostHeaderAuthority(req))
    IN Http1(IF host.some THEN Authority(host.val) ELSE NoAuthority)

\* Protocol::from trying the Host header before the URI authority
ClassifyHeaderFirst(req) ==
    IF req.version = "HTTP_2" THEN Http2
    ELSE LET host == OrElse(HostHeaderAuthority(req), req.authority_part)
         IN Http1(IF host.some THEN Authority(host.val) ELSE NoAuthority)

\* impl From<&http::Request<B>> for Protocol
Classify(req) ==
    IF req.version = "HTTP_2" THEN Http2
    ELSE LET host == OrElse(req.authority_part, HostHeaderAuthority(req))
         IN Http1(IF host.some THEN Authority(host.val) ELSE NoAuthority)


(* ------------------------------ Bind ----------------------------------- *)
Addrs == 1..NumAddrs

\* the requests the proxy routes in the binder model
SampleRequests ==
    {[version |-> "HTTP_2", authority_part |-> None, host |-> None],
     [version |-> "HTTP_11", authority_part |-> Some([authority |-> <<"a">>]),
      host |-> Some(<<"b">>)],
     [version |-> "HTTP_11", authority_part |-> None, host |-> Some(<<"a">>)],
     [version |-> "HTTP_11", authority_part |-> None, host |-> None],
     [version |-> "HTTP_10", authority_part |-> None, host |-> Some(<<" ">>)]}

\* the protocols callers hand to with_protocol and bind_service directly
BindKeys == {Http2, Http1(Authority([authority |-> <<"a">>]))}

\* Arc allocation: a value whose req_ids is a new cell extends the heap
Touch(heap, id) == IF id = Len(heap) + 1 THEN Append(heap, 0) ELSE heap

\* Bind::new
BindNew ==
    [kind |-> "Bind", ctx |-> "unit", sensors |-> "null",
     req_ids |-> Len(counters) + 1, protocol |-> NoKey]

\* Bind::with_sensors
WithSensors(bind, sensors) == [bind EXCEPT !.sensors = sensors]

\* Bind::with_ctx
WithCtx(bind, ctx) ==
    [kind |-> "Bind", ctx |-> ctx, sensors |-> bind.sensors,
     req_ids |-> bind.req_ids, protocol |-> NoKey]

\* a clone that gives the copy a counter of its own
CloneFreshCounter(bind) == [bind EXCEPT !.req_ids = Len(counters) + 1]

\* impl Clone for Bind
CloneBind(bind) ==
    [kind |-> "Bind", ctx |-> bind.ctx, sensors |-> bind.sensors,
     req_ids |-> bind.req_ids, protocol |-> NoKey]

\* with_protocol that pins HTTP/2 whatever it is given
WithProtocolH2(bind, protocol) ==
    [bind EXCEPT !.kind = "BindProtocol", !.protocol = Http2]

\* Bind::with_protocol
WithProtocol(bind, protocol) ==
    [bind EXCEPT !.kind = "BindProtocol", !.protocol = protocol]

\* ctx::transport::Client::new(&self.ctx, addr, Protocol::Http)
ClientCtx(bind, addr) == [proxy |-> bind.ctx, remote |-> addr, protocol |-> "Http"]

\* self.sensors.connect(transport::Connect::new(*addr, &self.executor), &client_ctx):
\* the connector for addr, labelled for telemetry; the sensors handle that
\* wraps it does not change what it connects to
NewConnect(bind, addr, client_ctx) == [addr |-> addr, ctx |-> client_ctx]

\* a client that speaks HTTP/2 whatever protocol it is given
NewClientH2(protocol, connect) == [protocol |-> Http2, connect |-> connect]

\* transparency::Client::new(protocol, connect, self.executor.clone())
NewClient(protocol, connect) == [protocol |-> protocol, connect |-> connect]

\* self.sensors.http(self.req_ids.clone(), client, &client_ctx)
SensorsHttp(bind, client, client_ctx) ==
    [req_ids |-> bind.req_ids, client |-> client, ctx |-> client_ctx]

NoConn == [open |-> FALSE]

\* Reconnect::new: no inner service yet
ReconnectNew(new_service) ==
    [new_service |-> new_service, state |-> "Idle", conn |-> NoConn]

\* a bind_service that dials while it constructs
BindServiceEager(bind, addr, protocol) ==
    LET client_ctx == ClientCtx(bind, addr)
        connect == NewConnect(bind, addr, client_ctx)
        client == NewClient(protocol, connect)
        proxy == SensorsHttp(bind, client, client_ctx)
    IN [new_service |-> proxy, state |-> "Connecting",
        conn |-> [open |-> TRUE, addr |-> addr, protocol |-> protocol]]

\* Bind::bind_service
BindService(bind, addr, protocol) ==
    LET client_ctx == ClientCtx(bind, addr)
        connect == NewConnect(bind, addr, client_ctx)
        client == NewClient(protocol, connect)
        proxy == SensorsHttp(bind, client, client_ctx)
    IN ReconnectNew(proxy)

\* a binder that hands out the service it built before for the same inputs
CachedService(addr, protocol) ==
    LET same == {i \in 1..Len(services) :
                    /\ services[i].new_service.client.connect.addr = addr
                    /\ services[i].new_service.client.protocol = protocol}
    IN IF same = {} THEN Len(services) + 1
       ELSE CHOOSE i \in same : \A j \in same : i <= j

\* the Service value bind_service returns: constructed by the call
FreshService(addr, protocol) == Len(services) + 1

\* impl control::discovery::Bind for BindProtocol: bind
DiscoveryBind(bp, addr) ==
    [ok |-> TRUE, service |-> BindService(bp, addr, bp.protocol)]


(* ------------------------ binder state machine ------------------------- *)
InitBind ==
    /\ counters = <<>>
    /\ slots = <<>>
    /\ services = <<>>
    /\ bound = <<>>
    /\ cache = <<>>
    /\ routed = <<>>
    /\ reqLog = <<>>
    /\ hist = [slot |-> <<>>, svc |-> <<>>]

\* the connection a service dials: its connect factory's address, its
\* client's protocol
Target(s) ==
    [open |-> TRUE,
     addr |-> s.new_service.client.connect.addr,
     protocol |-> s.new_service.client.protocol]

\* Reconnect, Idle arm: new_service() starts a connection
StartConnect(s) == [s EXCEPT !.state = "Connecting", !.conn = Target(s)]

\* what polling the connecting future, and the connected client, can return
PollResults == {"Ready", "NotReady", "Err"}

\* Reconnect::poll_ready, where fut is what the connecting future returns if
\* polled and inner what the connected client's poll_ready returns if polled:
\* the service afterwards and the value returned. A connection just dialled
\* is not ready at its first poll.
ReconnectPollReady(s, fut, inner) ==
    LET connected(c) ==
            IF inner = "Err"
            THEN [svc |-> StartConnect(c), ret |-> "NotReady"]
            ELSE [svc |-> [c EXCEPT !.state = "Connected"], ret |-> inner]
    IN CASE s.state = "Idle" -> [svc |-> StartConnect(s), ret |-> "NotReady"]
         [] s.state = "Connecting" ->
                (CASE fut = "NotReady" -> [svc |-> s, ret |-> "NotReady"]
                   [] fut = "Err" ->
                         [svc |-> [s EXCEPT !.state = "Idle", !.conn = NoConn],
                          ret |-> "Err"]
                   [] fut = "Ready" -> connected(s))
         [] s.state = "Connected" -> connected(s)

\* a service value takes its place among the services and is handed out
Install(n, v, g) ==
    /\ services' = IF n = Len(services) + 1 THEN Append(services, v) ELSE services
    /\ hist' = IF n = Len(services) + 1
               THEN [hist EXCEPT !.svc = Append(@, g)] ELSE hist
    /\ bound' = Append(bound, n)
    /\ counters' = Touch(counters, v.new_service.req_ids)

New ==
    /\ Len(slots) < MaxSlots
    /\ LET b == BindNew
       IN /\ slots' = Append(slots, b)
          /\ counters' = Touch(counters, b.req_ids)
    /\ hist' = [hist EXCEPT !.slot =
                    Append(@, [origin |-> Len(slots) + 1, given |-> NoKey])]
    /\ UNCHANGED <<services, bound, cache, routed, reqLog, kvars>>

DoWithSensors(b, sensors) ==
    /\ slots[b].kind = "Bind" /\ slots[b].ctx = "unit"
    /\ slots' = [slots EXCEPT ![b] = WithSensors(@, sensors)]
    /\ counters' = Touch(counters, slots'[b].req_ids)
    /\ UNCHANGED <<services, bound, cache, routed, reqLog, hist, kvars>>

DoWithCtx(b) ==
    /\ slots[b].kind = "Bind" /\ slots[b].ctx = "unit"
    /\ slots' = [slots EXCEPT ![b] = WithCtx(@, "proxy")]
    /\ counters' = Touch(counters, slots'[b].req_ids)
    /\ UNCHANGED <<services, bound, cache, routed, reqLog, hist, kvars>>

DoClone(b) ==
    /\ Len(slots) < MaxSlots
    /\ slots[b].kind = "Bind"
    /\ LET c == CloneBind(slots[b])
       IN /\ slots' = Append(slots, c)
          /\ counters' = Touch(counters, c.req_ids)
    /\ hist' = [hist EXCEPT !.slot = Append(@, hist.slot[b])]
    /\ UNCHANGED <<services, bound, cache, routed, reqLog, kvars>>

DoWithProtocol(b, protocol) ==
    /\ slots[b].kind = "Bind"
    /\ slots' = [slots EXCEPT ![b] = WithProtocol(@, protocol)]
    /\ counters' = Touch(counters, slots'[b].req_ids)
    /\ hist' = [hist EXCEPT !.slot[b].given = protocol]
    /\ UNCHANGED <<services, bound, cache, routed, reqLog, kvars>>

DoBindService(b, addr, protocol) ==
    /\ slots[b].kind = "Bind" /\ slots[b].ctx = "proxy"
    /\ Len(bound) < MaxServices
    /\ Install(FreshService(addr, protocol),
               BindService(slots[b], addr, protocol),
               [result |-> "Service",
                origin |-> hist.slot[b].origin, addr |-> addr,
                protocol |-> protocol, polled |-> FALSE])
    /\ UNCHANGED <<slots, cache, routed, reqLog, kvars>>

DoDiscoveryBind(b, addr) ==
    /\ slots[b].kind = "BindProtocol" /\ slots[b].ctx = "proxy"
    /\ Len(bound) < MaxServices
    /\ LET r == DiscoveryBind(slots[b], addr)
       IN Install(FreshService(addr, slots[b].protocol), r.service,
               [result |-> IF r.ok THEN "Ok" ELSE "Err",
                origin |-> hist.slot[b].origin, addr |-> addr,
                protocol |-> hist.slot[b].given, polled |-> FALSE])
    /\ UNCHANGED <<slots, cache, routed, reqLog, kvars>>

\* the services callers hold
Held == {bound[i] : i \in 1..Len(bound)}

\* a request is driven through service n: poll_ready, then call once the
\* service is Ready. sensor::Http::call gives the request the next id of the
\* shared counter (fetch_add) and hands it to the client.
Dispatch(n, fut, inner) ==
    /\ n \in Held
    /\ LET r == ReconnectPollReady(services[n], fut, inner)
           c == services[n].new_service.req_ids
       IN /\ services' = [services EXCEPT ![n] = r.svc]
          /\ IF r.ret = "Ready"
             THEN /\ Len(reqLog) < MaxReqs
                  /\ reqLog' = Append(reqLog, [svc |-> n, id |-> counters[c]])
                  /\ counters' = [counters EXCEPT ![c] = @ + 1]
             ELSE UNCHANGED <<reqLog, counters>>
    /\ hist' = [hist EXCEPT !.svc[n].polled = TRUE]
    /\ UNCHANGED <<slots, bound, cache, routed, kvars>>

\* the discovery layer: look (addr, key) up in the cache, bind on a miss
Route(req, addr, b) ==
    /\ Len(routed) < MaxRoutes
    /\ slots[b].kind = "Bind" /\ slots[b].ctx = "proxy"
    /\ LET key == Classify(req)
           hits == {i \in 1..Len(cache) :
                       cache[i].addr = addr /\ ProtocolEq(cache[i].key, key)}
       IN IF hits # {}
          THEN LET e == cache[CHOOSE i \in hits : \A j \in hits : i <= j]
               IN /\ routed' = Append(routed,
                        [key |-> key, addr |-> addr, svc |-> e.svc, hit |-> TRUE])
                  /\ UNCHANGED <<counters, services, bound, cache, hist>>
          ELSE LET bp == WithProtocol(CloneBind(slots[b]), key)
                   r == DiscoveryBind(bp, addr)
                   n == FreshService(addr, key)
               IN /\ Install(n, r.service,
                        [result |-> IF r.ok THEN "Ok" ELSE "Err",
                         origin |-> hist.slot[b].origin,
                         addr |-> addr, protocol |-> key, polled |-> FALSE])
                  /\ cache' = Append(cache, [addr |-> addr, key |-> key, svc |-> n])
                  /\ routed' = Append(routed,
                        [key |-> key, addr |-> addr, svc |-> n, hit |-> FALSE])
    /\ UNCHANGED <<slots, reqLog, kvars>>

\* the classification variables, at rest while the binder runs
KeyIdle ==
    /\ pc = "off"
    /\ r1 = CHOOSE r \in SampleRequests : r.version = "HTTP_2"
    /\ r2 = r1
    /\ k1 = NoKey
    /\ k2 = NoKey
    /\ cmp = NoCmp

Init == InitBind /\ KeyIdle

\* the connected client is polled only behind a connecting future that is
\* Ready
PollOutcomes ==
    {<<"NotReady", "Ready">>, <<"Err", "Ready">>}
        \cup {<<"Ready", inner>> : inner \in PollResults}

DispatchAny ==
    \E n \in 1..Len(services), o \in PollOutcomes : Dispatch(n, o[1], o[2])

\* binders are made, specialised, cloned and pinned; services are bound from
\* them and requests dispatched
Next ==
    \/ New
    \/ \E b \in 1..Len(slots), s \in {"null", "real"} : DoWithSensors(b, s)
    \/ \E b \in 1..Len(slots) : DoWithCtx(b)
    \/ \E b \in 1..Len(slots) : DoClone(b)
    \/ \E b \in 1..Len(slots), p \in BindKeys : DoWithProtocol(b, p)
    \/ \E b \in 1..Len(slots), a \in Addrs, p \in BindKeys : DoBindService(b, a, p)
    \/ \E b \in 1..Len(slots), a \in Addrs : DoDiscoveryBind(b, a)
    \/ DispatchAny

Spec == Init /\ [][Next]_vars

\* the binder as the proxy holds it once started:
\* Bind::new(executor).with_sensors(sensors).with_ctx(ctx)
InitProxy ==
    /\ counters = <<0>>
    /\ slots = <<[kind |-> "Bind", ctx |-> "proxy", sensors |-> "real",
                  req_ids |-> 1, protocol |-> NoKey]>>
    /\ services = <<>>
    /\ bound = <<>>
    /\ cache = <<>>
    /\ routed = <<>>
    /\ reqLog = <<>>
    /\ hist = [slot |-> <<[origin |-> 1, given |-> NoKey]>>, svc |-> <<>>]
    /\ KeyIdle

\* services are bound from the proxy's binder and used
NextConn ==
    \/ \E a \in Addrs, p \in BindKeys : DoBindService(1, a, p)
    \/ DispatchAny

SpecConn == InitProxy /\ [][NextConn]_vars

\* requests are routed through the discovery cache and dispatched
NextRoute ==
    \/ \E r \in SampleRequests, a \in Addrs : Route(r, a, 1)
    \/ DispatchAny

SpecRoute == InitProxy /\ [][NextRoute]_vars

(* ------------- classification of a pair of requests -------------------- *)
InitKey ==
    /\ pc = "r1"
    /\ r1 \in Requests
    /\ r2 \in Requests
    /\ k1 = NoKey
    /\ k2 = NoKey
    /\ cmp = NoCmp
    /\ InitBind

ClassifyFirst ==
    /\ pc = "r1"
    /\ k1' = Classify(r1)
    /\ pc' = "r2"
    /\ UNCHANGED <<r1, r2, k2, cmp>>
    /\ UNCHANGED bvars

ClassifySecond ==
    /\ pc = "r2"
    /\ k2' = Classify(r2)
    /\ pc' = "cmp"
    /\ UNCHANGED <<r1, r2, k1, cmp>>
    /\ UNCHANGED bvars

\* k1 == k2, k2 == k1 and k1 == k1 as the proxy's router evaluates them
Compare ==
    /\ pc = "cmp"
    /\ cmp' = [set |-> TRUE,
               eq12 |-> ProtocolEq(k1, k2),
               eq21 |-> ProtocolEq(k2, k1),
               eq11 |-> ProtocolEq(k1, k1),
               heq12 |-> IF k1.proto = "Http1" /\ k2.proto = "Http1"
                         THEN HostEq(k1.h, k2.h) ELSE FALSE,
               heq21 |-> IF k1.proto = "Http1" /\ k2.proto = "Http1"
                         THEN HostEq(k2.h, k1.h) ELSE FALSE]
    /\ pc' = "done"
    /\ UNCHANGED <<r1, r2, k1, k2>>
    /\ UNCHANGED bvars

NextKey == ClassifyFirst \/ ClassifySecond \/ Compare

SpecKey == InitKey /\ [][NextKey]_vars

(* ------------------------------ claims --------------------------------- *)
Http1NoAuthority == Http1(NoAuthority)

\* the header values that are the text of an authority
AuthorityTexts == {a.authority : a \in Authorities}

\* C1: NoAuthority equals no Host, itself included, in either order; two
\* Authority hosts are equal exactly when their authorities are.
Thm_C1_HostEquality ==
    (cmp.set /\ k1.proto = "Http1" /\ k2.proto = "Http1") =>
        /\ (k1.h.host = "NoAuthority" \/ k2.h.host = "NoAuthority")
                => (~cmp.heq12 /\ ~cmp.heq21)
        /\ (k1.h.host = "Authority" /\ k2.h.host = "Authority")
                => /\ cmp.heq12 <=> (k1.h.a.authority = k2.h.a.authority)
                   /\ cmp.heq21 <=> (k1.h.a.authority = k2.h.a.authority)

Wit_C1_NoAuthorityPair ==
    /\ cmp.set
    /\ k1 = Http1NoAuthority /\ k2 = Http1NoAuthority
    /\ ~cmp.heq12

VersionNumber(v) ==
    CASE v = "HTTP_09" -> 9 [] v = "HTTP_10" -> 10
      [] v = "HTTP_11" -> 11 [] v = "HTTP_2" -> 20

\* C2: two requests of the same HTTP version >= 2 both classify as Http2 and
\* the keys are equal, whatever their URI authority and Host header.
Thm_C2_Http2 ==
    (cmp.set /\ r1.version = r2.version /\ VersionNumber(r1.version) >= 20) =>
        /\ k1 = Http2 /\ k2 = Http2
        /\ cmp.eq12 /\ cmp.eq21

Wit_C2_Http2DifferentHosts ==
    /\ cmp.set
    /\ r1.version = "HTTP_2" /\ r2.version = "HTTP_2"
    /\ r1.authority_part.some /\ r2.host.some
    /\ r1.host # r2.host /\ r1.authority_part # r2.authority_part
    /\ cmp.eq12

\* C3: an HTTP/1.x request is keyed Http1(Authority(A)), A being its URI
\* authority when it has one and otherwise its parseable Host header; every
\* request gets a key.
Thm_C3_Http1Authority ==
    (pc \in {"r2", "cmp", "done"}) =>
        /\ k1 \in Protocols
        /\ VersionNumber(r1.version) < 20 =>
            /\ r1.authority_part.some
                    => k1 = Http1(Authority(r1.authority_part.val))
            /\ (~r1.authority_part.some /\ r1.host.some
                    /\ r1.host.val \in AuthorityTexts)
                    => k1 = Http1(Authority([authority |-> r1.host.val]))

Wit_C3_UriBeatsHost ==
    /\ pc = "done"
    /\ r1.version = "HTTP_11"
    /\ r1.authority_part = Some([authority |-> <<"a">>])
    /\ r1.host = Some(<<"b">>)
    /\ k1 = Http1(Authority([authority |-> <<"a">>]))
    /\ r2.version = "HTTP_11" /\ ~r2.authority_part.some
    /\ r2.host = Some(<<"b">>)
    /\ k2 = Http1(Authority([authority |-> <<"b">>]))

\* an HTTP/1.x request from which no host can be derived
Underivable(r) ==
    /\ VersionNumber(r.version) < 20
    /\ ~r.authority_part.some
    /\ (~r.host.some \/ r.host.val \notin AuthorityTexts)

\* C4: an HTTP/1.x request with no derivable host is keyed Http1(NoAuthority);
\* two such keys are unequal, and such a key is unequal to itself.
Thm_C4_NoAuthorityKeys ==
    /\ (pc \in {"r2", "cmp", "done"} /\ Underivable(r1)) => k1 = Http1NoAuthority
    /\ (cmp.set /\ Underivable(r1) /\ Underivable(r2)) =>
            /\ k2 = Http1NoAuthority
            /\ ~cmp.eq12 /\ ~cmp.eq21 /\ ~cmp.eq11

Wit_C4_IdenticalRequests ==
    /\ cmp.set
    /\ r1 = r2
    /\ r1.host = Some(<<" ">>)
    /\ Underivable(r1)
    /\ ~cmp.eq12

\* the connection a service was bound for
BoundTarget(n) ==
    [open |-> TRUE, addr |-> hist.svc[n].addr, protocol |-> hist.svc[n].protocol]

\* C5: request ids given out on services that derive from one Bind::new are
\* strictly increasing in the order they were assigned, and such services
\* all hold the same counter.
Thm_C5_RequestIds ==
    /\ \A i, j \in 1..Len(reqLog) :
            (i < j /\ hist.svc[reqLog[i].svc].origin = hist.svc[reqLog[j].svc].origin)
                => reqLog[i].id < reqLog[j].id
    /\ \A m, n \in 1..Len(services) :
            hist.svc[m].origin = hist.svc[n].origin
                => services[m].new_service.req_ids = services[n].new_service.req_ids

Wit_C5_TwoServicesOneCounter ==
    /\ Len(reqLog) = 2
    /\ reqLog[1].svc # reqLog[2].svc
    /\ hist.svc[reqLog[1].svc].origin = hist.svc[reqLog[2].svc].origin
    /\ hist.svc[reqLog[1].svc].result # hist.svc[reqLog[2].svc].result
    /\ Len(slots) = 2
    /\ reqLog[1].id = 0 /\ reqLog[2].id = 1

\* C6: a service whose connection has failed is not stuck: the step that
\* takes it out of Connected, or out of Idle after a failed connect, starts
\* a connection to the address and protocol the service was bound for.
Thm_C6_Reconnect ==
    [][\A n \in 1..Len(services) :
          (/\ services'[n] # services[n]
           /\ \/ services[n].state = "Connected"
              \/ services[n].state = "Idle" /\ hist.svc[n].polled)
          => /\ services'[n].state = "Connecting"
             /\ services'[n].conn = BoundTarget(n)
             /\ services'[n].new_service = services[n].new_service]_vars

Wit_C6_Redialled ==
    \E n \in 1..Len(services) :
        /\ services[n].state = "Connecting"
        /\ \E i \in 1..Len(reqLog) : reqLog[i].svc = n
        /\ services[n].conn = BoundTarget(n)
        /\ hist.svc[n].addr = 2

\* C7: a service that no request has been dispatched through is Idle and has
\* dialled no connection.
Thm_C7_LazyConnect ==
    \A n \in 1..Len(services) :
        ~hist.svc[n].polled
            => services[n].state = "Idle" /\ services[n].conn = NoConn

Wit_C7_BoundNotDialled ==
    /\ Len(bound) = 2
    /\ \A n \in 1..Len(services) : ~hist.svc[n].polled /\ services[n].state = "Idle"

\* C8: every bind_service call returns a service constructed by that call,
\* Idle and without a connection, and leaves the services bound before as
\* they were; a step changes the connection state of one service at most;
\* services of one binder hold the same request-id counter.
Thm_C8_Independent ==
    [][/\ Len(bound') = Len(bound) + 1 =>
            /\ bound'[Len(bound')] = Len(services) + 1
            /\ Len(services') = Len(services) + 1
            /\ \A n \in 1..Len(services) : services'[n] = services[n]
            /\ services'[Len(services')].state = "Idle"
            /\ services'[Len(services')].conn = NoConn
       /\ \A m, n \in 1..Len(services) :
            (m # n /\ services'[m] # services[m]) => services'[n] = services[n]
       /\ \A m, n \in 1..Len(services') :
            services'[m].new_service.req_ids = services'[n].new_service.req_ids
      ]_vars

Wit_C8_SameInputsApart ==
    /\ Len(bound) = 2 /\ bound[1] # bound[2]
    /\ hist.svc[bound[1]].addr = hist.svc[bound[2]].addr
    /\ hist.svc[bound[1]].protocol = hist.svc[bound[2]].protocol
    /\ services[bound[1]].state = "Connected"
    /\ services[bound[2]].state = "Idle" /\ ~hist.svc[bound[2]].polled

\* C9: bind on a protocol-scoped binder returns Ok with a service for the
\* address given and the protocol with_protocol was given, and a
\* protocol-scoped binder keeps the protocol it was given.
Thm_C9_DiscoveryBind ==
    /\ \A b \in 1..Len(slots) :
            slots[b].kind = "BindProtocol" => slots[b].protocol = hist.slot[b].given
    /\ \A n \in 1..Len(services) :
            hist.svc[n].result # "Service" =>
                /\ hist.svc[n].result = "Ok"
                /\ services[n].new_service.client.connect.addr = hist.svc[n].addr
                /\ services[n].new_service.client.protocol = hist.svc[n].protocol
                /\ services[n].new_service.ctx.remote = hist.svc[n].addr
                /\ hist.svc[n].protocol \in BindKeys

Wit_C9_BoundViaAdapter ==
    \E n \in 1..Len(services) :
        /\ hist.svc[n].result = "Ok"
        /\ hist.svc[n].addr = 2
        /\ services[n].new_service.client.protocol
                = Http1(Authority([authority |-> <<"a">>]))
        /\ services[n].state = "Connected"

\* two keys a cache can match: both Http2, or Http1 with the same authority
SameKnownKey(p, q) ==
    \/ p = Http2 /\ q = Http2
    \/ /\ p.proto = "Http1" /\ q.proto = "Http1"
       /\ p.h.host = "Authority" /\ q.h.host = "Authority"
       /\ p.h.a.authority = q.h.a.authority

\* C10: a request keyed Http1(NoAuthority) misses the cache and is
\* dispatched on a service no other routed request uses; requests to one
\* address keyed Http2, or Http1 with the same authority, use one service.
Thm_C10_CacheRouting ==
    \A j \in 1..Len(routed) :
        /\ routed[j].key = Http1NoAuthority =>
                /\ ~routed[j].hit
                /\ \A i \in 1..Len(routed) : i # j => routed[i].svc # routed[j].svc
        /\ \A i \in 1..(j - 1) :
                (routed[i].addr = routed[j].addr
                    /\ SameKnownKey(routed[i].key, routed[j].key))
                => (routed[j].hit /\ routed[j].svc = routed[i].svc)

Wit_C10_NoAuthorityTwice ==
    /\ Len(routed) = 2
    /\ routed[1].key = Http1NoAuthority /\ routed[2].key = Http1NoAuthority
    /\ routed[1].addr = routed[2].addr
    /\ routed[1].svc # routed[2].svc
    /\ services[routed[1].svc].state = "Connected"
    /\ services[routed[2].svc].state = "Idle"
====
